---- MODULE Spec2Model ----
(***************************************************************************)
(* Model of detectron2/export/caffe2_inference.py:                         *)
(*   ProtobufModel           (the spec's GraphRunner)                       *)
(*   ProtobufDetectionModel  (the spec's DetectionAdapter)                  *)
(* The caffe2 workspace is a process-wide table of named workspaces; each  *)
(* workspace maps blob names to values and net names to registered nets.   *)
(***************************************************************************)
EXTENDS Integers, Sequences, FiniteSets, TLC

\* ------------------------------------------------------------------------
\* Bounds of the model
\* ------------------------------------------------------------------------
\* tensors a caller feeds directly hold one number in 0..MaxTensor
MaxTensor == 2
\* images of a batch are 1..MaxDim high and wide
MaxDim == 2
\* an operator's result is one of NumCodes codes
NumCodes == 3

\* ------------------------------------------------------------------------
\* Values a blob can hold
\* ------------------------------------------------------------------------
\* no blob of that name in the workspace
Absent == [k |-> "absent", name |-> "", d |-> <<>>]
\* a blob created (CreateBlob, CreateNet) and never written
Uninit == [k |-> "uninit", name |-> "", d |-> <<>>]
\* a tensor; d abstracts its shape and content, d[1] = 0 is an empty tensor
Tensor(d) == [k |-> "tensor", name |-> "", d |-> d]
\* the text "<b>, a C++ native class of type nullptr (uninitialized)."
UninitText(b) == [k |-> "str", name |-> b, d |-> <<>>]

TensorVals == {Tensor(<<n>>) : n \in 0..MaxTensor}

RECURSIVE SumSeq(_)
SumSeq(s) == IF s = <<>> THEN 0 ELSE Head(s) + SumSeq(Tail(s))

RECURSIVE SeqToSet(_)
SeqToSet(s) == IF s = <<>> THEN {} ELSE {Head(s)} \cup SeqToSet(Tail(s))

\* ------------------------------------------------------------------------
\* The serialized graphs (caffe2 NetDef) the model draws from
\* ------------------------------------------------------------------------
BlobNames == {"data", "im_info", "w", "feat", "scores", "boxes", "bogus"}

NetIds == {"detnet", "clsnet"}

\* predict_net: the declared order of the outputs is not the order in
\* which the operators compute them.
PredictNet(g) ==
    IF g = "detnet"
    THEN [name |-> "detnet",
          external_input |-> <<"data", "im_info", "w">>,
          external_output |-> <<"boxes", "scores">>,
          op |-> << [input |-> <<"data", "w">>, output |-> "feat"],
                    [input |-> <<"feat">>, output |-> "scores"],
                    [input |-> <<"feat", "im_info">>, output |-> "boxes"] >>]
    ELSE [name |-> "clsnet",
          external_input |-> <<"data">>,
          external_output |-> <<"scores">>,
          op |-> << [input |-> <<"data">>, output |-> "scores"] >>]

\* init_net: the blobs its single execution fills
InitNet(g) ==
    IF g = "detnet"
    THEN << [output |-> "w", value |-> Tensor(<<1>>)] >>
    ELSE << >>

\* ------------------------------------------------------------------------
\* The caffe2 workspace
\* ------------------------------------------------------------------------
WsNames == {"__ws_tmp__"}

EmptyWS == [blobs |-> [b \in BlobNames |-> Absent], nets |-> {}]

\* ws.Blobs()
Blobs(ws) == {b \in BlobNames : ws.blobs[b] # Absent}

\* ws.CreateBlob(b): an existing blob is kept
CreateBlob(ws, b) ==
    IF b \in Blobs(ws) THEN ws ELSE [ws EXCEPT !.blobs[b] = Uninit]

\* ws.FeedBlob(b, v): creates the blob when needed
FeedBlob(ws, b, v) == [ws EXCEPT !.blobs[b] = v]

\* a bug: a blob of no type is fetched as it is
FetchBlobUntyped(ws, b) == ws.blobs[b]

\* ws.FetchBlob(b) of an existing blob: a blob of no type is fetched as text
FetchBlob(ws, b) ==
    IF ws.blobs[b] = Uninit THEN UninitText(b) ELSE ws.blobs[b]

\* ScopedWS(ws_name, is_reset, is_cleanup=False): the table on entry
ScopedWS(W, ws_name, is_reset) ==
    IF is_reset THEN [W EXCEPT ![ws_name] = EmptyWS] ELSE W

\* ws.RunNetOnce(init_net): every operator of the init graph fills its blob
RECURSIVE RunNetOnce(_, _)
RunNetOnce(ws, init) ==
    IF init = <<>> THEN ws
    ELSE RunNetOnce(FeedBlob(ws, Head(init).output, Head(init).value), Tail(init))

\* creating an operator creates its output blobs
RECURSIVE CreateOutputs(_, _)
CreateOutputs(ws, ops) ==
    IF ops = <<>> THEN ws
    ELSE CreateOutputs(CreateBlob(ws, Head(ops).output), Tail(ops))

\* ws.CreateNet(net): registers the net under its name
CreateNet(ws, net) ==
    LET w1 == CreateOutputs(ws, net.op)
    IN  [w1 EXCEPT !.nets = @ \cup {net.name}]

\* an operator throws on an input that is no tensor or is an empty tensor
Faulty(v) == v.k # "tensor" \/ v.d = <<>> \/ v.d[1] = 0

\* what an operator computes from its inputs: a code that depends on all of them
OpResult(ws, o) ==
    Tensor(<< 1 + (SumSeq([i \in DOMAIN o.input |-> SumSeq(ws.blobs[o.input[i]].d)])
                   % NumCodes) >>)

\* the operators from index i on, in order; the first that throws ends the run.
\* oom = i: operator i cannot allocate its output, a MemoryError (0: none does).
RECURSIVE RunOps(_, _, _, _, _)
RunOps(ws, ops, i, oom, computed) ==
    IF i > Len(ops)
    THEN [ws |-> ws, exc |-> "none", msg |-> "", computed |-> computed]
    ELSE IF oom = i
    THEN [ws |-> ws, exc |-> "MemoryError", msg |-> "", computed |-> computed]
    ELSE IF \E j \in DOMAIN ops[i].input : Faulty(ws.blobs[ops[i].input[j]])
    THEN [ws |-> ws, exc |-> "RuntimeError", msg |-> ops[i].output,
          computed |-> computed]
    ELSE RunOps(FeedBlob(ws, ops[i].output, OpResult(ws, ops[i])), ops, i + 1, oom,
                computed \cup {ops[i].output})

\* ws.RunNet(name): a name that is not registered is a RuntimeError
RunNet(ws, name, oom) ==
    IF name \notin ws.nets
    THEN [ws |-> ws, exc |-> "RuntimeError", msg |-> "no such net", computed |-> {}]
    ELSE RunOps(ws, PredictNet(name).op, 1, oom, {})

\* ------------------------------------------------------------------------
\* ProtobufModel
\* ------------------------------------------------------------------------
NotNetDef == "not a NetDef"

NoRunner == [alive |-> FALSE, ws_name |-> "__ws_tmp__", net |-> "detnet",
             error_msgs |-> {}]

\* a bug: a fresh placeholder for every declared input, filled by init or not
RECURSIVE ReplaceInputBlobs(_, _)
ReplaceInputBlobs(ws, inputs) ==
    IF inputs = <<>> THEN ws
    ELSE ReplaceInputBlobs(FeedBlob(ws, Head(inputs), Uninit), Tail(inputs))

\* for blob in external_input: if blob not in ws.Blobs(): ws.CreateBlob(blob)
RECURSIVE CreateInputBlobs(_, _)
CreateInputBlobs(ws, inputs) ==
    IF inputs = <<>> THEN ws
    ELSE CreateInputBlobs(
            IF Head(inputs) \notin Blobs(ws) THEN CreateBlob(ws, Head(inputs)) ELSE ws,
            Tail(inputs))

\* with ScopedWS(self.ws_name, is_reset=True, ...) as ws: the workspace it leaves
InitWorkspace(W, ws_name, g) ==
    LET ws0 == ScopedWS(W, ws_name, TRUE)[ws_name]
        ws1 == RunNetOnce(ws0, InitNet(g))
        ws2 == CreateInputBlobs(ws1, PredictNet(g).external_input)
        ws3 == CreateNet(ws2, PredictNet(g))
    IN  [ScopedWS(W, ws_name, TRUE) EXCEPT ![ws_name] = ws3]

\* ProtobufModel.__init__(predict_net, init_net)
ProtobufModel_init(W, g) ==
    IF g = NotNetDef
    THEN [W |-> W, self |-> NoRunner, outcome |-> "AssertionError"]
    ELSE [W |-> InitWorkspace(W, "__ws_tmp__", g),
          self |-> [alive |-> TRUE, ws_name |-> "__ws_tmp__", net |-> g,
                    error_msgs |-> {}],
          outcome |-> "returned"]

\* Python values for the argument of forward: a dict, or None
PyDict(f) == [none |-> FALSE, items |-> f]
PyNone == [none |-> TRUE, items |-> <<>>]

\* a bug: any() where all() was meant
AnyDeclared(net, items) ==
    \E inp \in DOMAIN items : inp \in SeqToSet(net.external_input)

\* all(inp in self.net.Proto().external_input for inp in inputs_dict)
AllDeclared(net, items) ==
    \A inp \in DOMAIN items : inp \in SeqToSet(net.external_input)

\* a bug: an input the dict omits is emptied before the run
ClearAndFeedInputs(ws, items) ==
    [ws EXCEPT !.blobs = [b \in BlobNames |->
                            IF b \in DOMAIN items THEN items[b]
                            ELSE IF b \in {"data", "im_info", "w"} /\ @[b] # Absent
                            THEN Uninit ELSE @[b]]]

\* for b, tensor in inputs_dict.items(): ws.FeedBlob(b, tensor)
FeedInputs(ws, items) ==
    [ws EXCEPT !.blobs = [b \in BlobNames |->
                            IF b \in DOMAIN items THEN items[b] ELSE @[b]]]

\* collections.OrderedDict(pairs): a repeated key keeps its first place
RECURSIVE OrderedDict(_, _)
OrderedDict(od, pairs) ==
    IF pairs = <<>> THEN od
    ELSE LET p == Head(pairs)
             od1 == IF \E i \in DOMAIN od : od[i][1] = p[1]
                    THEN [i \in DOMAIN od |-> IF od[i][1] = p[1] THEN p ELSE od[i]]
                    ELSE Append(od, p)
         IN  OrderedDict(od1, Tail(pairs))

\* a bug: only the outputs that hold a tensor are returned
FetchComputedOutputs(ws, outputs) ==
    OrderedDict(<<>>, SelectSeq([i \in DOMAIN outputs |->
                                   <<outputs[i], FetchBlob(ws, outputs[i])>>],
                                LAMBDA p : p[2].k = "tensor"))

\* [(b, ws.FetchBlob(b)) for b in external_output], as an OrderedDict
FetchOutputs(ws, outputs) ==
    OrderedDict(<<>>, [i \in DOMAIN outputs |-> <<outputs[i], FetchBlob(ws, outputs[i])>>])

\* a bug: the outputs are left as the run wrote them
KeepOutputs(ws, outputs) == ws

\* for b in external_output: ws.FeedBlob(b, "<b>, a C++ native class ...")
RECURSIVE ResetOutputs(_, _)
ResetOutputs(ws, outputs) ==
    IF outputs = <<>> THEN ws
    ELSE ResetOutputs(FeedBlob(ws, Head(outputs), UninitText(Head(outputs))),
                      Tail(outputs))

\* a bug: the message is logged and not remembered
ForgetError(error_msgs, msg) == error_msgs

\* except RuntimeError as e: the messages recorded after the handler
RecordError(error_msgs, msg) ==
    IF msg \notin error_msgs THEN error_msgs \cup {msg} ELSE error_msgs

\* a bug: except Exception, every failure of the graph is swallowed
RaisedByTryCatchingAll(exc) == "none"

\* a bug: the handler re-raises
RaisedByTryReraising(exc) == exc

\* the try statement around ws.RunNet: which exceptions leave it
RaisedByTry(exc) == IF exc = "RuntimeError" THEN "none" ELSE exc

\* the one element of a singleton set: binds a value that is computed once
Only(S) == CHOOSE x \in S : TRUE

\* lines 46-64: forward after ws.RunNet ended as `run` tells
AfterRunNet(W, self, net, run) ==
    LET caught == run.exc = "RuntimeError" /\ RaisedByTry(run.exc) = "none"
        part == [error_msgs |-> IF caught THEN RecordError(self.error_msgs, run.msg)
                                ELSE self.error_msgs,
                 fault |-> run.exc = "RuntimeError",
                 warned |-> IF caught /\ run.msg \notin self.error_msgs
                            THEN run.msg ELSE "",
                 msg |-> IF run.exc = "RuntimeError" THEN run.msg ELSE "",
                 exc |-> run.exc,
                 computed |-> run.computed, attempts |-> 1]
    IN
    IF RaisedByTry(run.exc) # "none"
    THEN part @@ [W |-> [W EXCEPT ![self.ws_name] = run.ws], result |-> <<>>,
                  outcome |-> RaisedByTry(run.exc)]
    ELSE IF \E i \in DOMAIN net.external_output :
               net.external_output[i] \notin Blobs(run.ws)
    THEN part @@ [W |-> [W EXCEPT ![self.ws_name] = run.ws], result |-> <<>>,
                  outcome |-> "RuntimeError"]
    ELSE part @@ [W |-> [W EXCEPT ![self.ws_name] =
                              ResetOutputs(run.ws, net.external_output)],
                  result |-> FetchOutputs(run.ws, net.external_output),
                  outcome |-> "returned"]

\* logger.warning("Encountered new RuntimeError: ..."): the texts logged so far
Logged(log, warned) == IF warned = "" THEN log ELSE Append(log, warned)

\* ProtobufModel.forward(inputs_dict)
ProtobufModel_forward(W, self, inputs_dict, oom) ==
    LET net == PredictNet(self.net)
        quiet == [W |-> W, error_msgs |-> self.error_msgs, result |-> <<>>,
                  fault |-> FALSE, warned |-> "", msg |-> "", exc |-> "none",
                  computed |-> {}, attempts |-> 0]
    IN
    IF inputs_dict.none
    THEN quiet @@ [outcome |-> "TypeError"]
    ELSE IF ~AllDeclared(net, inputs_dict.items)
    THEN quiet @@ [outcome |-> "AssertionError"]
    ELSE
      LET ws0 == ScopedWS(W, self.ws_name, FALSE)[self.ws_name]
          ws1 == FeedInputs(ws0, inputs_dict.items)
      IN  Only({AfterRunNet(W, self, net, run) : run \in {RunNet(ws1, net.name, oom)}})

\* ------------------------------------------------------------------------
\* ProtobufDetectionModel
\* ------------------------------------------------------------------------
\* bytes and str values are tuples of code points
GeneralizedRCNN == <<71, 101, 110, 101, 114, 97, 108, 105, 122, 101, 100, 82, 67, 78, 78>>
RetinaNet == <<82, 101, 116, 105, 110, 97, 78, 101, 116>>
\* b"Foo": ASCII, no such architecture
FooTag == <<70, 111, 111>>
\* b"Caf\xe9": not ASCII
CafeTag == <<67, 97, 102, 233>>

\* META_ARCH_CAFFE2_EXPORT_TYPE_MAP: the names it has a class for
META_ARCH_CAFFE2_EXPORT_TYPE_MAP == {GeneralizedRCNN, RetinaNet}

\* an argument of the NetDef is <<>> when the graph does not carry it, <<v>> otherwise
get_pb_arg_vali(arg, default) == IF arg = <<>> THEN default ELSE arg[1]
get_pb_arg_vals(arg, default) == IF arg = <<>> THEN default ELSE arg[1]

\* bytes.decode("ascii")
DecodeAscii(bytes) ==
    IF \A i \in DOMAIN bytes : bytes[i] < 128
    THEN [ok |-> TRUE, str |-> bytes]
    ELSE [ok |-> FALSE, str |-> <<>>]

\* the convert_outputs argument: None, or a caller's function
NoConverter == [kind |-> "none", arch |-> <<>>]
CustomConverter == [kind |-> "custom", arch |-> <<>>]
\* meta_arch.get_outputs_converter(predict_net, init_net)
get_outputs_converter(arch) == [kind |-> "arch", arch |-> arch]

NoAdapter == [alive |-> FALSE, size_divisibility |-> 0, convert_outputs |-> NoConverter]

\* lines 85-90: the converter the adapter ends with, or the exception
ResolveConverter(pb, convert_outputs) ==
    IF convert_outputs = NoConverter
    THEN LET meta_arch == get_pb_arg_vals(pb.meta_architecture, GeneralizedRCNN)
             dec == DecodeAscii(meta_arch)
         IN  IF ~dec.ok
             THEN [outcome |-> "UnicodeDecodeError", converter |-> NoConverter,
                   lookups |-> 0]
             ELSE IF dec.str \notin META_ARCH_CAFFE2_EXPORT_TYPE_MAP
             THEN [outcome |-> "KeyError", converter |-> NoConverter, lookups |-> 1]
             ELSE [outcome |-> "returned", converter |-> get_outputs_converter(dec.str),
                   lookups |-> 1]
    ELSE [outcome |-> "returned", converter |-> convert_outputs, lookups |-> 0]

\* ProtobufDetectionModel.__init__(predict_net, init_net, convert_outputs=...)
ProtobufDetectionModel_init(W, pb, convert_outputs) ==
    LET pm == ProtobufModel_init(W, pb.g)
        rc == ResolveConverter(pb, convert_outputs)
    IN  IF pm.outcome # "returned"
        THEN [W |-> pm.W, protobuf_model |-> NoRunner, self |-> NoAdapter,
              outcome |-> pm.outcome, lookups |-> 0]
        ELSE IF rc.outcome # "returned"
        THEN [W |-> pm.W, protobuf_model |-> NoRunner, self |-> NoAdapter,
              outcome |-> rc.outcome, lookups |-> rc.lookups]
        ELSE [W |-> pm.W, protobuf_model |-> pm.self,
              self |-> [alive |-> TRUE,
                        size_divisibility |-> get_pb_arg_vali(pb.size_divisibility, 0),
                        convert_outputs |-> rc.converter],
              outcome |-> "returned", lookups |-> rc.lookups]

Max(a, b) == IF a >= b THEN a ELSE b

RECURSIVE MaxHeight(_)
MaxHeight(batch) ==
    IF batch = <<>> THEN 0 ELSE Max(Head(batch).height, MaxHeight(Tail(batch)))

RECURSIVE MaxWidth(_)
MaxWidth(batch) ==
    IF batch = <<>> THEN 0 ELSE Max(Head(batch).width, MaxWidth(Tail(batch)))

\* the smallest multiple of size_divisibility that is >= n; 0 rounds nothing
PadTo(n, size_divisibility) ==
    IF size_divisibility > 0
    THEN ((n + size_divisibility - 1) \div size_divisibility) * size_divisibility
    ELSE n

RECURSIVE ImInfo(_)
ImInfo(batch) ==
    IF batch = <<>> THEN <<>>
    ELSE <<Head(batch).height, Head(batch).width, 1>> \o ImInfo(Tail(batch))

\* convert_batched_inputs_to_c2_format(batched_inputs, size_divisibility, device):
\* data is the padded batch (N, H, W), im_info a row (height, width, scale) per image
convert_batched_inputs_to_c2_format(batched_inputs, size_divisibility) ==
    [data |-> Tensor(<<Len(batched_inputs),
                       PadTo(MaxHeight(batched_inputs), size_divisibility),
                       PadTo(MaxWidth(batched_inputs), size_divisibility)>>),
     im_info |-> Tensor(ImInfo(batched_inputs))]

\* what a method that ends without a return statement returns
ImplicitReturn(c2_inputs) == PyNone

\* a bug: the batch is converted with no size divisibility
NoPaddingArgument(self) == 0

\* line 95: the size divisibility handed to convert_batched_inputs_to_c2_format
PaddingArgument(self) == self.size_divisibility

\* ProtobufDetectionModel._convert_inputs(batched_inputs)
ProtobufDetectionModel_convert_inputs(W, self, protobuf_model, batched_inputs, oom) ==
    LET c == convert_batched_inputs_to_c2_format(batched_inputs, PaddingArgument(self))
        c2_inputs == PyDict([b \in {"data", "im_info"} |->
                               IF b = "data" THEN c.data ELSE c.im_info])
    IN  Only({[W |-> c2_results.W, error_msgs |-> c2_results.error_msgs,
               outcome |-> c2_results.outcome,
               warnings |-> Logged(<<>>, c2_results.warned),
               value |-> IF c2_results.outcome = "returned"
                         THEN ImplicitReturn(c2_inputs) ELSE PyNone,
               c2_inputs |-> c2_inputs,
               trace |-> <<"convert_batched_inputs_to_c2_format", "protobuf_model">>] :
              c2_results \in {ProtobufModel_forward(W, protobuf_model, c2_inputs, oom)}})

\* self._convert_outputs(batched_inputs, c2_inputs, c2_results)
ApplyConverter(converter, batched_inputs, c2_inputs, c2_results) ==
    <<[by |-> converter, batched_inputs |-> batched_inputs, c2_inputs |-> c2_inputs,
       c2_results |-> c2_results]>>

\* lines 107-108: forward after self._convert_inputs ended as `ci` tells
AfterConvertInputs(self, protobuf_model, batched_inputs, ci) ==
    LET pm == [protobuf_model EXCEPT !.error_msgs = ci.error_msgs]
        c2_inputs == ci.value
        c2_results == ProtobufModel_forward(ci.W, pm, c2_inputs, 0)
    IN  IF ci.outcome # "returned"
        THEN [W |-> ci.W, error_msgs |-> ci.error_msgs, outcome |-> ci.outcome,
              warnings |-> ci.warnings,
              value |-> <<>>, trace |-> <<"_convert_inputs">> \o ci.trace]
        ELSE IF c2_results.outcome # "returned"
        THEN [W |-> c2_results.W, error_msgs |-> c2_results.error_msgs,
              outcome |-> c2_results.outcome, value |-> <<>>,
              warnings |-> Logged(ci.warnings, c2_results.warned),
              trace |-> <<"_convert_inputs">> \o ci.trace \o <<"protobuf_model">>]
        ELSE [W |-> c2_results.W, error_msgs |-> c2_results.error_msgs,
              outcome |-> "returned",
              warnings |-> Logged(ci.warnings, c2_results.warned),
              value |-> ApplyConverter(self.convert_outputs, batched_inputs,
                                       c2_inputs, c2_results.result),
              trace |-> <<"_convert_inputs">> \o ci.trace
                        \o <<"protobuf_model", "_convert_outputs">>]

\* ProtobufDetectionModel.forward(batched_inputs)
ProtobufDetectionModel_forward(W, self, protobuf_model, batched_inputs, oom) ==
    Only({AfterConvertInputs(self, protobuf_model, batched_inputs, ci) :
          ci \in {ProtobufDetectionModel_convert_inputs(W, self, protobuf_model,
                                                        batched_inputs, oom)}})

\* ------------------------------------------------------------------------
\* State
\* ------------------------------------------------------------------------
VARIABLES
    workspaces,   \* the process's caffe2 workspaces, by name
    runner,       \* the ProtobufModel held in each slot of the caller
    adapter,      \* the ProtobufDetectionModel that wraps the slot's runner, if any
    last,         \* the most recent call and what it gave its caller
    log,          \* the "new RuntimeError" warnings logged by each slot's runner
    calls         \* where each thread stands in its call of runner 1's forward

vars == <<workspaces, runner, adapter, last, log, calls>>

Runners == {1, 2}

\* the threads that call one runner with no lock between them
Threads == {1, 2}
\* the caller that holds the name m and binds it with m = ProtobufModel(...)
Constructors == {3}
\* the graphs constructed while threads call: the one-operator graph
ThreadNets == {"clsnet"}
\* names for the instances their slot no longer holds while calls on them are
\* in flight: every thread can be inside a different one, and an instance is
\* named after the first thread inside it
Detachments == Threads

\* the callers' inputs
\* the operator that runs out of memory, when one does, is the net's last
OomChoices(net) == {0, Len(net.op)}
InputKeys == {"data", "im_info", "w", "bogus"}
\* the tensors a caller feeds under each key
FeedVals(k) ==
    IF k = "data" THEN TensorVals
    ELSE IF k = "im_info" THEN {Tensor(<<1>>)}
    ELSE IF k = "w" THEN {Tensor(<<2>>)}
    ELSE {Tensor(<<1>>)}
InputDicts ==
    UNION {{f \in [S -> TensorVals] : \A k \in S : f[k] \in FeedVals(k)} :
           S \in SUBSET InputKeys}
\* the dicts the threads call with: "data" alone, an empty tensor (the graph
\* faults on it) or one of two tensors that differ
ThreadDicts ==
    {d \in InputDicts : DOMAIN d = {"data"} /\ d["data"] \in {Tensor(<<n>>) : n \in 0..2}}
\* the dicts that feed "data" alone, or nothing
DataDicts == {d \in InputDicts : DOMAIN d \subseteq {"data"}}
Images == [height : 1..MaxDim, width : 1..MaxDim]
\* one image, or an image and its transpose (the batch maxima come from both)
Batches ==
    {<<im>> : im \in Images}
      \cup {<<im, [height |-> im.width, width |-> im.height]>> : im \in Images}
\* what is passed as predict_net: not a NetDef, or a graph with its arguments
NoNetDef == [g |-> NotNetDef, size_divisibility |-> <<>>, meta_architecture |-> <<>>]
NetDefs == [g : NetIds,
            size_divisibility : {<<>>, <<0>>, <<2>>},
            meta_architecture : {<<>>, <<GeneralizedRCNN>>, <<RetinaNet>>,
                                 <<FooTag>>, <<CafeTag>>}]
             \cup {NoNetDef}

NoCall == [op |-> "none", r |-> 0, outcome |-> "none", inputs |-> PyNone,
           result |-> <<>>, fault |-> FALSE, warned |-> "", msg |-> "",
           exc |-> "none", computed |-> {},
           attempts |-> 0, repeat |-> FALSE, prior |-> "none", stale |-> FALSE,
           dirty |-> FALSE, batch |-> <<>>, overlap |-> "none", expected |-> <<>>,
           trace |-> <<>>, ret |-> PyNone, value |-> <<>>, lookups |-> 0,
           pb |-> NoNetDef, convert_outputs |-> NoConverter]

\* a thread that is not inside forward
\* an instance as a call in flight holds it once its name was bound anew (the
\* warnings recorded are those of the instance a slot holds)
Detached(self, warnings) ==
    [alive |-> self.alive, ws_name |-> self.ws_name, net |-> self.net,
     error_msgs |-> self.error_msgs, log |-> warnings]

NoFrame == [pc |-> "idle", r |-> 1, orphan |-> 0, self |-> Detached(NoRunner, <<>>),
            inputs_dict |-> PyNone, todo |-> {}, e |-> "", fault |-> FALSE,
            fetched |-> <<>>, outputs_dict |-> <<>>, n |-> 0, overlap |-> "none",
            expected |-> <<>>]

\* what overlapped a call in flight: nothing ("none"), calls on its own runner
\* only ("run"), or also a construction or a call on another runner ("mixed");
\* what the graph would have computed is kept for the calls nothing overlapped
Overlapped(f, by) ==
    [f EXCEPT !.overlap = IF by = "run" /\ @ \in {"none", "run"} THEN "run"
                          ELSE "mixed",
              !.expected = <<>>]

\* the frames with every instance that no slot holds named after the first
\* thread inside it
Named(frames) ==
    [u \in DOMAIN frames |->
       IF u \notin Threads \/ frames[u].pc = "idle" \/ frames[u].orphan = 0
       THEN frames[u]
       ELSE [frames[u] EXCEPT !.orphan =
               CHOOSE k \in Detachments :
                 /\ frames[k].pc # "idle" /\ frames[k].orphan = frames[u].orphan
                 /\ \A j \in Detachments :
                       (frames[j].pc # "idle" /\ frames[j].orphan = frames[u].orphan)
                          => k <= j]]

\* the frames once the constructor of thread c returned and slot r is bound to
\* the new instance: the calls in flight on the instance the slot held keep
\* that instance
Rebound(c, r) ==
    LET new == Cardinality(Detachments) + 1
    IN  Named([u \in DOMAIN calls |->
                 IF u = c THEN NoFrame
                 ELSE IF u \in Threads /\ calls[u].pc # "idle" /\ calls[u].r = r
                         /\ calls[u].orphan = 0
                 THEN [calls[u] EXCEPT !.orphan = new,
                                       !.self = Detached(runner[r], <<>>)]
                 ELSE calls[u]])

Init ==
    /\ workspaces = [n \in WsNames |-> EmptyWS]
    /\ runner = [r \in Runners |-> NoRunner]
    /\ adapter = [r \in Runners |-> NoAdapter]
    /\ last = NoCall
    /\ log = [r \in Runners |-> <<>>]
    /\ calls = [t \in Threads \cup Constructors |-> NoFrame]

\* m = ProtobufModel(predict_net, init_net), the whole constructor with nothing
\* in between; the caller is no thread of `calls` (0)
Construct(r) ==
    \E g \in NetIds \cup {NotNetDef} :
      \E c \in {ProtobufModel_init(workspaces, g)} :
          /\ workspaces' = c.W
          /\ runner' = IF c.outcome = "returned" THEN [runner EXCEPT ![r] = c.self]
                       ELSE runner
          /\ adapter' = IF c.outcome = "returned" THEN [adapter EXCEPT ![r] = NoAdapter]
                        ELSE adapter
          /\ last' = [NoCall EXCEPT !.op = "construct", !.r = r, !.outcome = c.outcome,
                                    !.pb = [NoNetDef EXCEPT !.g = g],
                                    !.dirty = Blobs(workspaces["__ws_tmp__"]) # {}]
          /\ log' = IF c.outcome = "returned" THEN [log EXCEPT ![r] = <<>>] ELSE log
          /\ calls' = IF c.outcome = "returned"
                      THEN [u \in DOMAIN calls |->
                              IF calls[u].pc = "idle" THEN calls[u]
                              ELSE Overlapped(Rebound(0, r)[u], "construct")]
                      ELSE calls

\* how the call before this one ended, when it was a run of the same runner
PriorRun(r) ==
    IF last.op # "run" \/ last.r # r THEN "none"
    ELSE IF last.outcome # "returned" THEN "raised"
    ELSE IF last.fault THEN "fault" ELSE "clean"

\* an output blob of the runner holds a tensor an earlier call left there
StaleOutputs(r) ==
    \E i \in DOMAIN PredictNet(runner[r].net).external_output :
       workspaces[runner[r].ws_name]
         .blobs[PredictNet(runner[r].net).external_output[i]].k = "tensor"

\* m(inputs_dict), for the dicts of D
RunWith(r, D, fails) ==
    /\ runner[r].alive
    /\ \E d \in D, oom \in fails :
         \E f \in {ProtobufModel_forward(workspaces, runner[r], PyDict(d), oom)} :
             /\ workspaces' = f.W
             /\ runner' = [runner EXCEPT ![r].error_msgs = f.error_msgs]
             /\ adapter' = adapter
             /\ last' = [NoCall EXCEPT !.op = "run", !.r = r, !.outcome = f.outcome,
                                       !.inputs = PyDict(d), !.result = f.result,
                                       !.fault = f.fault, !.warned = f.warned,
                                       !.msg = f.msg, !.exc = f.exc,
                                       !.computed = f.computed,
                                       !.attempts = f.attempts,
                                       !.prior = PriorRun(r),
                                       !.stale = StaleOutputs(r),
                                       !.repeat = /\ PriorRun(r) \in {"clean", "fault"}
                                                  /\ last.inputs = PyDict(d)]
             /\ log' = [log EXCEPT ![r] = Logged(@, f.warned)]
             /\ calls' = calls

\* m(inputs_dict)
Run(r) == RunWith(r, InputDicts, OomChoices(PredictNet(runner[r].net)))

\* m = ProtobufDetectionModel(predict_net, init_net, convert_outputs=...)
ConstructAdapter(r) ==
    \E pb \in NetDefs, convert_outputs \in {NoConverter, CustomConverter} :
      \E c \in {ProtobufDetectionModel_init(workspaces, pb, convert_outputs)} :
      \* a constructor that raises binds nothing: the caller's name keeps the
      \* adapter it held, while line 82 has already rebuilt the workspace
      LET bound == c.outcome = "returned"
      IN  /\ workspaces' = c.W
          /\ runner' = IF bound THEN [runner EXCEPT ![r] = c.protobuf_model]
                       ELSE runner
          /\ adapter' = IF bound THEN [adapter EXCEPT ![r] = c.self] ELSE adapter
          /\ last' = [NoCall EXCEPT !.op = "construct_adapter", !.r = r,
                                    !.outcome = c.outcome, !.lookups = c.lookups,
                                    !.pb = pb, !.convert_outputs = convert_outputs]
          /\ log' = IF bound THEN [log EXCEPT ![r] = <<>>] ELSE log
          /\ calls' = calls

\* m._convert_inputs(batched_inputs)
ConvertInputs(r) ==
    /\ adapter[r].alive
    /\ \E b \in Batches, oom \in OomChoices(PredictNet(runner[r].net)) :
         \E c \in {ProtobufDetectionModel_convert_inputs(workspaces, adapter[r],
                                                           runner[r], b, oom)} :
             /\ workspaces' = c.W
             /\ runner' = [runner EXCEPT ![r].error_msgs = c.error_msgs]
             /\ adapter' = adapter
             /\ last' = [NoCall EXCEPT !.op = "convert_inputs", !.r = r,
                                       !.outcome = c.outcome, !.ret = c.value,
                                       !.inputs = c.c2_inputs, !.batch = b,
                                       !.trace = c.trace]
             /\ log' = [log EXCEPT ![r] = @ \o c.warnings]
             /\ calls' = calls

\* m(batched_inputs)
Forward(r) ==
    /\ adapter[r].alive
    /\ \E b \in Batches, oom \in OomChoices(PredictNet(runner[r].net)) :
         \E c \in {ProtobufDetectionModel_forward(workspaces, adapter[r],
                                                    runner[r], b, oom)} :
             /\ workspaces' = c.W
             /\ runner' = [runner EXCEPT ![r].error_msgs = c.error_msgs]
             /\ adapter' = adapter
             /\ last' = [NoCall EXCEPT !.op = "forward", !.r = r,
                                       !.outcome = c.outcome, !.value = c.value,
                                       !.trace = c.trace]
             /\ log' = [log EXCEPT ![r] = @ \o c.warnings]
             /\ calls' = calls

\* forward called by thread t on the runner bound in slot 1, one step per
\* statement (per call of a loop): nothing in forward keeps another thread, or a
\* constructor, out of the workspace between two of them. `last` is what the
\* step gave a caller: NoCall for a step that ends no call.
\* the instance a call in flight runs on
SelfOf(t) ==
    IF calls[t].orphan = 0
    THEN Detached(runner[calls[t].r], log[calls[t].r])
    ELSE calls[t].self
\* the calls in flight on the same instance as the call of t
SameSelf(t, u) ==
    /\ calls[u].pc # "idle"
    /\ calls[u].r = calls[t].r
    /\ calls[u].orphan = calls[t].orphan

\* what the graph computes from the workspace as it is right after the feeds
ExpectedOutputs(ws, net) ==
    Only({[i \in DOMAIN net.external_output |->
             <<net.external_output[i],
               IF run.ws.blobs[net.external_output[i]] = Uninit
               THEN UninitText(net.external_output[i])
               ELSE run.ws.blobs[net.external_output[i]]>>] :
          run \in {RunNet(ws, net.name, 0)}})

\* how a call that leaves forward with an exception is recorded
Raised(t, outcome) ==
    [NoCall EXCEPT !.op = "run", !.r = calls[t].r, !.outcome = outcome,
                   !.inputs = calls[t].inputs_dict, !.fault = calls[t].fault,
                   !.overlap = calls[t].overlap, !.expected = calls[t].expected]

\* the frames after thread t changed its own to f and the instance it runs on
\* to self1 (its messages or its warnings)
WithSelf(t, f, self1) ==
    [u \in DOMAIN calls |->
       IF u = t THEN [f EXCEPT !.self = IF calls[t].orphan = 0 THEN @ ELSE self1]
       ELSE IF u \in Threads /\ SameSelf(t, u) /\ calls[t].orphan # 0
       THEN [calls[u] EXCEPT !.self = self1]
       ELSE calls[u]]

\* line 40: the assert; the call is in flight from here on
Enter(t) ==
    /\ runner[1].alive
    /\ calls[t].pc = "idle"
    /\ \E d \in ThreadDicts :
         IF ~AllDeclared(PredictNet(runner[1].net), d)
         THEN /\ last' = [NoCall EXCEPT !.op = "run", !.r = 1,
                                        !.outcome = "AssertionError",
                                        !.inputs = PyDict(d)]
              /\ calls' = calls
         ELSE /\ last' = NoCall
              /\ calls' = [u \in DOMAIN calls |->
                             IF u = t
                             THEN [NoFrame EXCEPT
                                     !.pc = IF DOMAIN d = {} THEN "run" ELSE "feed",
                                     !.inputs_dict = PyDict(d),
                                     !.todo = DOMAIN d,
                                     !.expected =
                                        IF DOMAIN d = {}
                                           /\ \A v \in DOMAIN calls \ {t} :
                                                 calls[v].pc = "idle"
                                        THEN ExpectedOutputs(
                                                 workspaces[runner[1].ws_name],
                                                 PredictNet(runner[1].net))
                                        ELSE <<>>,
                                     !.overlap =
                                        IF \A v \in DOMAIN calls \ {t} :
                                              calls[v].pc = "idle"
                                        THEN "none"
                                        ELSE IF /\ \A v \in Threads \ {t} :
                                                      calls[v].orphan = 0
                                                /\ \A v \in Constructors :
                                                      calls[v].pc = "idle"
                                        THEN "run" ELSE "mixed"]
                             ELSE IF u \in Threads /\ calls[u].pc # "idle"
                             THEN Overlapped(calls[u], IF calls[u].orphan = 0
                                                       THEN "run" ELSE "other")
                             ELSE calls[u]]
    /\ UNCHANGED <<workspaces, runner, adapter, log>>

\* lines 41-43: one ws.FeedBlob(b, tensor) of the loop over the dict; forward
\* does not read the dict again after the loop
Feed(t) ==
    /\ calls[t].pc = "feed"
    /\ \E b \in calls[t].todo :
         \E ws1 \in {FeedBlob(ScopedWS(workspaces, SelfOf(t).ws_name, FALSE)
                                [SelfOf(t).ws_name],
                              b, calls[t].inputs_dict.items[b])} :
           /\ workspaces' = [workspaces EXCEPT ![SelfOf(t).ws_name] = ws1]
           /\ calls' = IF calls[t].todo = {b}
                       THEN [calls EXCEPT ![t].pc = "run", ![t].todo = {},
                                          ![t].inputs_dict = PyNone,
                                          ![t].expected =
                                             IF calls[t].overlap = "none"
                                             THEN ExpectedOutputs(
                                                      ws1, PredictNet(SelfOf(t).net))
                                             ELSE <<>>]
                       ELSE [calls EXCEPT ![t].todo = @ \ {b}]
    /\ last' = NoCall
    /\ UNCHANGED <<runner, adapter, log>>

\* lines 44-46: ws.RunNet; a RuntimeError enters the handler
Execute(t) ==
    /\ calls[t].pc = "run"
    /\ \E run \in {RunNet(workspaces[SelfOf(t).ws_name],
                            PredictNet(SelfOf(t).net).name, 0)} :
         /\ workspaces' = [workspaces EXCEPT ![SelfOf(t).ws_name] = run.ws]
         /\ IF RaisedByTry(run.exc) # "none"
            THEN /\ calls' = Named([calls EXCEPT ![t] = NoFrame])
                 /\ last' = Raised(t, RaisedByTry(run.exc))
            ELSE /\ calls' = [calls EXCEPT
                               ![t].pc = IF run.exc = "RuntimeError"
                                         THEN "except" ELSE "fetch",
                               ![t].e = IF run.exc = "RuntimeError" THEN run.msg ELSE "",
                               ![t].fault = run.exc = "RuntimeError"]
                 /\ last' = NoCall
    /\ UNCHANGED <<runner, adapter, log>>

\* line 47: if not str(e) in self._error_msgs; the handler reads e no more
\* once it is left
TestMessage(t) ==
    /\ calls[t].pc = "except"
    /\ calls' = IF calls[t].e \notin SelfOf(t).error_msgs
                THEN [calls EXCEPT ![t].pc = "add"]
                ELSE [calls EXCEPT ![t].pc = "fetch", ![t].e = ""]
    /\ last' = NoCall
    /\ UNCHANGED <<workspaces, runner, adapter, log>>

\* line 48: self._error_msgs.add(str(e))
AddMessage(t) ==
    /\ calls[t].pc = "add"
    /\ runner' = IF calls[t].orphan = 0
                 THEN [runner EXCEPT ![calls[t].r].error_msgs = @ \cup {calls[t].e}]
                 ELSE runner
    /\ calls' = WithSelf(t, [calls[t] EXCEPT !.pc = "warn"],
                         [calls[t].self EXCEPT !.error_msgs = @ \cup {calls[t].e}])
    /\ last' = NoCall
    /\ UNCHANGED <<workspaces, adapter, log>>

\* line 49: logger.warning("Encountered new RuntimeError: ...")
WarnMessage(t) ==
    /\ calls[t].pc = "warn"
    /\ log' = IF calls[t].orphan = 0
              THEN [log EXCEPT ![calls[t].r] = Logged(@, calls[t].e)]
              ELSE log
    /\ calls' = [calls EXCEPT ![t].pc = "fetch", ![t].e = ""]
    /\ last' = NoCall
    /\ UNCHANGED <<workspaces, runner, adapter>>

\* line 53: one ws.FetchBlob(b) of the list; after the last, the OrderedDict
Fetch(t) ==
    /\ calls[t].pc = "fetch"
    /\ LET ws == workspaces[SelfOf(t).ws_name]
           outputs == PredictNet(SelfOf(t).net).external_output
           b == outputs[Len(calls[t].fetched) + 1]
           fetched == Append(calls[t].fetched, <<b, FetchBlob(ws, b)>>)
       IN  IF b \notin Blobs(ws)
           THEN /\ calls' = Named([calls EXCEPT ![t] = NoFrame])
                /\ last' = Raised(t, "RuntimeError")
           ELSE /\ calls' = IF Len(fetched) = Len(outputs)
                            THEN [calls EXCEPT ![t].pc = "reset", ![t].fetched = <<>>,
                                               ![t].outputs_dict =
                                                  OrderedDict(<<>>, fetched)]
                            ELSE [calls EXCEPT ![t].fetched = fetched]
                /\ last' = NoCall
    /\ UNCHANGED <<workspaces, runner, adapter, log>>

\* lines 58-62: one ws.FeedBlob(b, "<b>, a C++ native class ...") of the loop
Reset(t) ==
    /\ calls[t].pc = "reset"
    /\ LET outputs == PredictNet(SelfOf(t).net).external_output
           b == outputs[calls[t].n + 1]
       IN  /\ workspaces' = [workspaces EXCEPT ![SelfOf(t).ws_name] =
                                FeedBlob(@, b, UninitText(b))]
           /\ calls' = IF calls[t].n + 1 = Len(outputs)
                       THEN [calls EXCEPT ![t].pc = "return", ![t].n = 0]
                       ELSE [calls EXCEPT ![t].n = @ + 1]
    /\ last' = NoCall
    /\ UNCHANGED <<runner, adapter, log>>

\* line 64: the with block is left and outputs_dict is returned
Return(t) ==
    /\ calls[t].pc = "return"
    /\ calls' = Named([calls EXCEPT ![t] = NoFrame])
    /\ last' = [NoCall EXCEPT !.op = "run", !.r = calls[t].r, !.outcome = "returned",
                              !.inputs = calls[t].inputs_dict,
                              !.result = calls[t].outputs_dict,
                              !.fault = calls[t].fault, !.attempts = 1,
                              !.overlap = calls[t].overlap,
                              !.expected = calls[t].expected]
    /\ UNCHANGED <<workspaces, runner, adapter, log>>

\* m = ProtobufModel(predict_net, init_net) by thread c, one step per workspace
\* call: nothing in __init__ keeps a thread that is inside forward out of the
\* workspace between two of them. The instance is no one's until it is bound.

\* lines 22-30: the asserts, self.ws_name, self.net, and the entry of
\* ScopedWS(is_reset=True), which empties the workspace
NewWorkspace(c) ==
    /\ calls[c].pc = "idle"
    /\ \E g \in ThreadNets :
         \E new \in {ProtobufModel_init(workspaces, g).self} :
           /\ workspaces' = ScopedWS(workspaces, new.ws_name, TRUE)
           /\ calls' = [u \in DOMAIN calls |->
                          IF u = c
                          THEN [NoFrame EXCEPT !.pc = "init",
                                               !.self = Detached(new, <<>>)]
                          ELSE IF calls[u].pc # "idle"
                          THEN Overlapped(calls[u], "construct")
                          ELSE calls[u]]
    /\ last' = NoCall
    /\ UNCHANGED <<runner, adapter, log>>

\* the frame of thread c once the loop of lines 32-34 is past input n
NextInput(c, n) ==
    IF n >= Len(PredictNet(calls[c].self.net).external_input)
    THEN [calls EXCEPT ![c].pc = "net", ![c].n = 0]
    ELSE [calls EXCEPT ![c].pc = "test", ![c].n = n]

\* line 31: ws.RunNetOnce(init_net)
RunInitNet(c) ==
    /\ calls[c].pc = "init"
    /\ workspaces' = [workspaces EXCEPT ![calls[c].self.ws_name] =
                         RunNetOnce(@, InitNet(calls[c].self.net))]
    /\ calls' = NextInput(c, 0)
    /\ last' = NoCall
    /\ UNCHANGED <<runner, adapter, log>>

\* line 33: if blob not in ws.Blobs()
TestInput(c) ==
    /\ calls[c].pc = "test"
    /\ LET blob == PredictNet(calls[c].self.net).external_input[calls[c].n + 1]
       IN  calls' = IF blob \notin Blobs(workspaces[calls[c].self.ws_name])
                    THEN [calls EXCEPT ![c].pc = "create"]
                    ELSE NextInput(c, calls[c].n + 1)
    /\ last' = NoCall
    /\ UNCHANGED <<workspaces, runner, adapter, log>>

\* line 34: ws.CreateBlob(blob)
CreateInput(c) ==
    /\ calls[c].pc = "create"
    /\ LET blob == PredictNet(calls[c].self.net).external_input[calls[c].n + 1]
       IN  workspaces' = [workspaces EXCEPT ![calls[c].self.ws_name] =
                            CreateBlob(@, blob)]
    /\ calls' = NextInput(c, calls[c].n + 1)
    /\ last' = NoCall
    /\ UNCHANGED <<runner, adapter, log>>

\* line 35: ws.CreateNet(self.net)
RegisterNet(c) ==
    /\ calls[c].pc = "net"
    /\ workspaces' = [workspaces EXCEPT ![calls[c].self.ws_name] =
                         CreateNet(@, PredictNet(calls[c].self.net))]
    /\ calls' = [calls EXCEPT ![c].pc = "bind"]
    /\ last' = NoCall
    /\ UNCHANGED <<runner, adapter, log>>

\* line 37 and the caller's assignment: the name in slot 1 is the new instance
Bind(c) ==
    /\ calls[c].pc = "bind"
    /\ runner' = [runner EXCEPT ![1] = [alive |-> TRUE,
                                        ws_name |-> calls[c].self.ws_name,
                                        net |-> calls[c].self.net,
                                        error_msgs |-> {}]]
    /\ adapter' = [adapter EXCEPT ![1] = NoAdapter]
    /\ log' = [log EXCEPT ![1] = <<>>]
    /\ calls' = Rebound(c, 1)
    /\ last' = [NoCall EXCEPT !.op = "construct", !.r = 1, !.outcome = "returned",
                              !.pb = [NoNetDef EXCEPT !.g = calls[c].self.net]]
    /\ UNCHANGED workspaces

\* one ProtobufModel at a time in the process: a new one replaces the old
Next ==
    \/ Construct(1)
    \/ Run(1)

Spec == Init /\ [][Next]_vars

\* one ProtobufDetectionModel at a time in the process
NextAdapter ==
    \/ ConstructAdapter(1)
    \/ ConvertInputs(1)
    \/ Forward(1)

SpecAdapter == Init /\ [][NextAdapter]_vars

\* two ProtobufModel instances alive in one process
NextTwo ==
    \/ \E r \in Runners : Construct(r)
    \/ \E r \in Runners : RunWith(r, DataDicts, {0})

SpecTwo == Init /\ [][NextTwo]_vars

\* one name for a ProtobufModel, called from two threads and bound by a third
NextThreads ==
    \/ \E c \in Constructors : NewWorkspace(c)
    \/ \E c \in Constructors : RunInitNet(c)
    \/ \E c \in Constructors : TestInput(c)
    \/ \E c \in Constructors : CreateInput(c)
    \/ \E c \in Constructors : RegisterNet(c)
    \/ \E c \in Constructors : Bind(c)
    \/ \E t \in Threads : Enter(t)
    \/ \E t \in Threads : Feed(t)
    \/ \E t \in Threads : Execute(t)
    \/ \E t \in Threads : TestMessage(t)
    \/ \E t \in Threads : AddMessage(t)
    \/ \E t \in Threads : WarnMessage(t)
    \/ \E t \in Threads : Fetch(t)
    \/ \E t \in Threads : Reset(t)
    \/ \E t \in Threads : Return(t)

SpecThreads == Init /\ [][NextThreads]_vars

\* ------------------------------------------------------------------------
\* Properties
\* ------------------------------------------------------------------------
\* the workspace and the graph of the runner the last call was made on
LastWs == workspaces[runner[last.r].ws_name]
LastNet == PredictNet(runner[last.r].net)
Keys(result) == [i \in DOMAIN result |-> result[i][1]]
RunReturned == last.op = "run" /\ last.outcome = "returned"
OutputsAreReset ==
    \A i \in DOMAIN LastNet.external_output :
       LastWs.blobs[LastNet.external_output[i]] = UninitText(LastNet.external_output[i])

\* C1: a run that returns gives exactly the declared external outputs as keys, in
\* their declared order, whether or not the graph raised a RuntimeError.
C1_ReturnedKeysAreDeclaredOutputs ==
    RunReturned => Keys(last.result) = LastNet.external_output

\* a run that returned after a RuntimeError, with one output computed and one not
C1_Witness ==
    /\ RunReturned /\ last.fault
    /\ Len(last.result) = 2
    /\ \E i, j \in DOMAIN last.result :
          last.result[i][2].k = "tensor" /\ last.result[j][2].k = "str"

\* C2: after a run that returns every declared output blob holds the
\* "uninitialized" text, and a run that follows a returned run and hits a
\* RuntimeError returns that text for every output the graph did not compute.
C2_NoStaleLeakage ==
    RunReturned =>
      /\ OutputsAreReset
      /\ (last.prior \in {"clean", "fault"} /\ last.fault) =>
            \A i \in DOMAIN last.result :
               last.result[i][1] \notin last.computed
                 => last.result[i][2] = UninitText(last.result[i][1])

\* a faulting run right after a run that computed every output
C2_Witness ==
    /\ RunReturned /\ last.fault /\ last.prior = "clean"
    /\ \E i \in DOMAIN last.result : last.result[i][1] \notin last.computed

\* C3: a run whose dict has an undeclared key fails with AssertionError and
\* leaves every workspace and the runner (its recorded messages) as they were.
C3_InvalidInputFailsFast ==
    [][(/\ last'.op = "run"
        /\ ~(DOMAIN last'.inputs.items
               \subseteq SeqToSet(PredictNet(runner[last'.r].net).external_input)))
       => (/\ last'.outcome = "AssertionError"
           /\ workspaces' = workspaces
           /\ runner' = runner)]_vars

\* a failed call whose dict also held a declared key, on a runner already used
C3_Witness ==
    /\ last.op = "run" /\ last.outcome = "AssertionError"
    /\ last.prior = "clean"
    /\ {"data", "bogus"} \subseteq DOMAIN last.inputs.items

\* C4: a RuntimeError of the graph does not reach the caller: the call returns
\* the declared outputs, the output blobs are reset and the runner stays usable.
C4_FaultIsNotPropagated ==
    (last.op = "run" /\ last.fault) =>
      /\ last.outcome = "returned"
      /\ Keys(last.result) = LastNet.external_output
      /\ OutputsAreReset
      /\ runner[last.r].alive
      /\ LastNet.name \in LastWs.nets

\* a fault that left partial results, followed from a runner that had faulted before
C4_Witness ==
    /\ last.op = "run" /\ last.fault /\ last.prior = "fault"
    /\ last.computed # {}

\* C5: _convert_inputs returns a dict whose keys are exactly "data" and
\* "im_info", and does not itself execute the graph.
C5_ConvertInputsOnlyConverts ==
    last.op = "convert_inputs" =>
      /\ \A i \in DOMAIN last.trace : last.trace[i] # "protobuf_model"
      /\ last.outcome = "returned"
      /\ ~last.ret.none
      /\ DOMAIN last.ret.items = {"data", "im_info"}

\* C6: a forward call whose graph run raises nothing converts the inputs once,
\* runs the graph once, converts the outputs once, in that order, and returns
\* the converter's result.
C6_ForwardConvertsRunsConverts ==
    (last.op = "forward" /\ last.outcome \notin {"AssertionError", "MemoryError"}) =>
      /\ last.outcome = "returned"
      /\ last.trace = <<"_convert_inputs", "convert_batched_inputs_to_c2_format",
                        "protobuf_model", "_convert_outputs">>
      /\ Len(last.value) = 1

\* Python's LookupError and its subclasses
LookupErrors == {"LookupError", "KeyError", "IndexError"}
\* the tag the constructor of the last call resolves
LastTag == get_pb_arg_vals(last.pb.meta_architecture, GeneralizedRCNN)
\* the last call constructed an adapter with no converter given, and the
\* graph's tag names no registered architecture
UnregisteredTag ==
    /\ last.op = "construct_adapter"
    /\ last.convert_outputs = NoConverter
    /\ LastTag \notin META_ARCH_CAFFE2_EXPORT_TYPE_MAP
ForwardNeverLooksUp == last.op = "forward" => last.outcome \notin LookupErrors

\* C7: with no converter supplied and a tag that is not in the registry,
\* construction fails with LookupError, and forward never raises one. The tag
\* b"Caf\xe9" fails at the decode of line 87 with UnicodeDecodeError, which is a
\* ValueError and no LookupError.
C7_UnregisteredTagIsLookupError ==
    /\ UnregisteredTag => last.outcome \in LookupErrors
    /\ ForwardNeverLooksUp

\* C8: of two consecutive runs with the same dict that both return, the second
\* returns what the first returned, whatever the calls before them did.
C8_SameInputsSameOutputs ==
    [][(last'.op = "run" /\ last'.repeat /\ last'.outcome = "returned")
       => last'.result = last.result]_vars

\* C9: constructing or running one runner leaves the workspace of every other
\* live runner as it was.
C9_IsolatedWorkspaces ==
    [][\A r \in Runners :
         (runner[r].alive /\ last'.r # r)
           => workspaces'[runner[r].ws_name] = workspaces[runner[r].ws_name]]_vars

\* the blobs the init graph of g fills
InitBlobs(g) == {InitNet(g)[i].output : i \in DOMAIN InitNet(g)}
\* the blobs the operators of g write
OpBlobs(g) == {PredictNet(g).op[i].output : i \in DOMAIN PredictNet(g).op}

\* right after a construction that succeeded: the workspace holds what one
\* execution of the init graph on an empty workspace leaves, a placeholder for
\* every other declared input, and the registered net, and nothing else
FreshlyConstructed ==
    (last.op = "construct" /\ last.outcome = "returned") =>
      /\ Blobs(LastWs) = InitBlobs(last.pb.g) \cup OpBlobs(last.pb.g)
                           \cup SeqToSet(LastNet.external_input)
      /\ \A i \in DOMAIN InitNet(last.pb.g) :
            LastWs.blobs[InitNet(last.pb.g)[i].output] = InitNet(last.pb.g)[i].value
      /\ \A b \in SeqToSet(LastNet.external_input) \ InitBlobs(last.pb.g) :
            LastWs.blobs[b] = Uninit
      /\ LastWs.nets = {LastNet.name}

\* every declared input of a live runner exists as a blob
InputBlobsExist ==
    \A r \in Runners :
       runner[r].alive =>
         SeqToSet(PredictNet(runner[r].net).external_input)
           \subseteq Blobs(workspaces[runner[r].ws_name])

\* a run leaves a blob the init graph filled as it was, unless the dict feeds it
RunKeepsInitBlobs ==
    last'.op = "run" =>
      \A b \in InitBlobs(runner[last'.r].net) \ DOMAIN last'.inputs.items :
         workspaces'[runner[last'.r].ws_name].blobs[b]
           = workspaces[runner[last'.r].ws_name].blobs[b]

\* C10: a successful construction has executed the init graph once on a fresh
\* workspace, every declared input exists as a blob, an input the init graph
\* filled keeps its init value, and no later run executes the init graph again.
C10_ConstructionInitialisesOnce ==
    /\ [](FreshlyConstructed /\ InputBlobsExist)
    /\ [][RunKeepsInitBlobs]_vars

\* a runner constructed over the workspace an earlier runner had used: the
\* input "w" holds its init value and "data" is a fresh placeholder
C10_Witness ==
    /\ last.op = "construct" /\ last.outcome = "returned"
    /\ last.dirty
    /\ last.pb.g = "detnet"
    /\ LastWs.blobs["w"] = Tensor(<<1>>)
    /\ LastWs.blobs["data"] = Uninit

\* the texts of a sequence are pairwise different
NoRepeat(s) == \A i, j \in DOMAIN s : i # j => s[i] # s[j]

\* a run adds its fault's text to the log and to the recorded set exactly when
\* the set did not hold it, and the recorded set never loses a text
RunLogsNewMessageOnly ==
    last'.op = "run" =>
      LET r == last'.r
          new == last'.fault /\ last'.msg \notin runner[r].error_msgs
      IN  /\ runner[r].error_msgs \subseteq runner'[r].error_msgs
          /\ runner'[r].error_msgs
               = IF new THEN runner[r].error_msgs \cup {last'.msg}
                 ELSE runner[r].error_msgs
          /\ log'[r] = IF new THEN Append(log[r], last'.msg) ELSE log[r]

\* C11: over the runs of one runner every fault text is logged once, at the run
\* where it first occurs, the recorded set holds exactly the texts logged, a
\* fault whose text is recorded adds nothing to it, and it only grows.
C11_FaultLoggedOncePerMessage ==
    /\ [](\A r \in Runners :
            runner[r].alive =>
              NoRepeat(log[r]) /\ SeqToSet(log[r]) = runner[r].error_msgs)
    /\ [][RunLogsNewMessageOnly]_vars

\* a fault whose text was already recorded, after two different texts were logged
C11_Witness ==
    /\ last.op = "run" /\ last.fault /\ last.warned = ""
    /\ last.msg \in SeqToSet(log[last.r])
    /\ Len(log[last.r]) = 2

\* the dict of the last run passed the assert of line 40
ValidInputs == DOMAIN last.inputs.items \subseteq SeqToSet(LastNet.external_input)

\* C12: a run executes the graph once when its dict is valid (and not at all
\* when it is not), a RuntimeError included; an exception of the graph that is
\* no RuntimeError reaches the caller as that same exception, with no result.
C12_OneAttemptNoTranslation ==
    last.op = "run" =>
      /\ last.attempts = IF ValidInputs THEN 1 ELSE 0
      /\ last.fault => last.attempts = 1
      /\ last.exc \notin {"none", "RuntimeError"} =>
            /\ last.outcome = last.exc
            /\ last.result = <<>>
      /\ last.outcome \in {"returned", "AssertionError", last.exc}

\* the graph raised MemoryError after computing an output, and the caller got it
C12_Witness ==
    /\ last.op = "run" /\ last.exc = "MemoryError" /\ last.outcome = "MemoryError"
    /\ last.attempts = 1
    /\ last.computed # {}

\* m is the smallest multiple of d that is >= n
SmallestMultiple(m, d, n) == m % d = 0 /\ m >= n /\ m - d < n
\* m is the largest of the numbers of S
Largest(m, S) == m \in S /\ \A x \in S : x <= m

\* the spatial dimensions of the batch tensor _convert_inputs built are the
\* largest height and width of the batch, rounded up to the size divisibility
PaddedToDivisibility ==
    last.op = "convert_inputs" =>
      LET d == adapter[last.r].size_divisibility
          data == last.inputs.items["data"].d
      IN  \E h \in 1..MaxDim, w \in 1..MaxDim :
            /\ Largest(h, {last.batch[i].height : i \in DOMAIN last.batch})
            /\ Largest(w, {last.batch[i].width : i \in DOMAIN last.batch})
            /\ IF d > 0
               THEN SmallestMultiple(data[2], d, h) /\ SmallestMultiple(data[3], d, w)
               ELSE data[2] = h /\ data[3] = w

\* the adapter holds the graph's size_divisibility argument, 0 when it has none
DivisibilityDefaultsToZero ==
    (last.op = "construct_adapter" /\ last.outcome = "returned") =>
      adapter[last.r].size_divisibility
        = IF last.pb.size_divisibility = <<>> THEN 0 ELSE last.pb.size_divisibility[1]

\* C13: for size_divisibility d > 0 the batch tensor's height and width are the
\* smallest multiples of d that are >= the largest image height and width
\* (d = 32: 70x100 gives 96x128); for d = 0, also the value when the graph has
\* no such argument, they are the batch maxima.
C13_SizeDivisibilityPadding ==
    /\ PaddedToDivisibility
    /\ DivisibilityDefaultsToZero
    /\ PadTo(70, 32) = 96 /\ PadTo(100, 32) = 128
    /\ PadTo(70, 0) = 70 /\ PadTo(100, 0) = 100

\* a 1x1 image converted by an adapter of size divisibility 2: padded to 2x2
C13_Witness ==
    /\ last.op = "convert_inputs"
    /\ adapter[last.r].size_divisibility = 2
    /\ last.batch = <<[height |-> 1, width |-> 1]>>
    /\ last.inputs.items["data"].d = <<1, 2, 2>>

\* C14: once a run has been called, every declared output blob reads as the
\* "uninitialized" text, however that call ended (returned, returned after a
\* RuntimeError, failed the assert, or raised out of the graph execution).
C14_OutputsResetHoweverCallEnded ==
    last.op = "run" =>
      \A i \in DOMAIN LastNet.external_output :
         FetchBlob(LastWs, LastNet.external_output[i])
           = UninitText(LastNet.external_output[i])

\* the run of this step: its runner's graph, its dict, the blobs before and after
StepNet == PredictNet(runner[last'.r].net)
StepItems == last'.inputs.items
BlobsBefore == workspaces[runner[last'.r].ws_name].blobs
BlobsAfter == workspaces'[runner[last'.r].ws_name].blobs
\* what the run's operators find in a declared input
SeenBy(b) == IF b \in DOMAIN StepItems THEN StepItems[b] ELSE BlobsBefore[b]
\* what the run left of a blob: an output is read from the result, it is reset
LeftIn(b) ==
    IF \E i \in DOMAIN last'.result : last'.result[i][1] = b
    THEN (CHOOSE p \in SeqToSet(last'.result) : p[1] = b)[2]
    ELSE BlobsAfter[b]

\* C15 as claimed: a run changes no blob but the inputs its dict names and the
\* declared outputs.
C15_WritesOnlyFedInputsAndOutputs ==
    [][last'.op = "run" =>
         \A b \in BlobNames \ (DOMAIN StepItems \cup SeqToSet(StepNet.external_output)) :
            BlobsAfter[b] = BlobsBefore[b]]_vars

\* a run changes no blob but the inputs its dict names, the blobs the graph's
\* operators write and the declared outputs
RunFrame ==
    last'.op = "run" =>
      \A b \in BlobNames \ (DOMAIN StepItems \cup SeqToSet(StepNet.external_output)
                                \cup OpBlobs(runner[last'.r].net)) :
         BlobsAfter[b] = BlobsBefore[b]

\* a run whose dict is valid leaves every declared input it names with the fed
\* tensor and every other declared input as it was
RunKeepsOmittedInputs ==
    (last'.op = "run" /\ last'.outcome # "AssertionError") =>
      \A b \in SeqToSet(StepNet.external_input) : BlobsAfter[b] = SeenBy(b)

\* an operator of a returned run that reads declared inputs only computed its
\* blob from the fed tensors and, for the omitted inputs, the standing values
RunUsesStandingInputs ==
    (last'.op = "run" /\ last'.outcome = "returned") =>
      \A i \in DOMAIN StepNet.op :
         LET o == StepNet.op[i]
         IN  (/\ o.output \in last'.computed
              /\ SeqToSet(o.input) \subseteq SeqToSet(StepNet.external_input))
               => LeftIn(o.output)
                    = Tensor(<< 1 + (SumSeq([j \in DOMAIN o.input |->
                                               SumSeq(SeenBy(o.input[j]).d)])
                                     % NumCodes) >>)

\* C15 as amended: a run changes only the inputs its dict names, the blobs the
\* graph's operators write and the declared outputs; a declared input the dict
\* omits is left unchanged, and the graph executes with the value it had.
C15_OmittedInputsKeepTheirValue ==
    /\ [][RunFrame]_vars
    /\ [][RunKeepsOmittedInputs]_vars
    /\ [][RunUsesStandingInputs]_vars

\* a run that did not feed "w" computed "feat" from the value an earlier call fed
C15_Witness ==
    /\ RunReturned /\ LastNet.name = "detnet"
    /\ "w" \notin DOMAIN last.inputs.items
    /\ "data" \in DOMAIN last.inputs.items
    /\ LastWs.blobs["w"] = Tensor(<<2>>)
    /\ "feat" \in last.computed
    /\ LastWs.blobs["feat"]
         = Tensor(<<1 + ((last.inputs.items["data"].d[1] + 2) % NumCodes)>>)

\* C16: forward holds no lock on the workspace. A call that nothing overlapped
\* (no other call, no construction) returns, for every declared output, what
\* the graph computes from the workspace as its own feeds left it; of two calls
\* on one runner that overlap, one can return an output that was not computed
\* from what it fed (C16_Witness).
C16_SerializedCallsSeeOwnInputs ==
    (RunReturned /\ last.overlap = "none") => last.result = last.expected

\* a call overlapped by another call on the same runner, and by nothing else,
\* returned the reset text for an output that the graph computes, without
\* fault, from what the call fed
C16_Witness ==
    /\ RunReturned /\ last.overlap = "run" /\ ~last.fault
    /\ \E i \in DOMAIN last.result :
          /\ last.result[i][1] \in OpBlobs(LastNet.name)
          /\ last.result[i][2] = UninitText(last.result[i][1])

\* an adapter constructed from a NetDef with a converter supplied: the registry
\* is not consulted and construction succeeds whatever the tag; with none
\* supplied and a tag that decodes, the registry is consulted once
ConverterDecidesLookup ==
    (last.op = "construct_adapter" /\ last.pb.g # NotNetDef) =>
      IF last.convert_outputs = CustomConverter
      THEN /\ last.outcome = "returned"
           /\ last.lookups = 0
           /\ adapter[last.r].convert_outputs = CustomConverter
      ELSE /\ DecodeAscii(LastTag).ok => last.lookups = 1
           /\ last.outcome = "returned" =>
                adapter[last.r].convert_outputs = get_outputs_converter(LastTag)

\* a forward call whose graph run raises nothing returns what the supplied
\* converter made of the graph's results
ForwardUsesSuppliedConverter ==
    (/\ last.op = "forward"
     /\ adapter[last.r].convert_outputs = CustomConverter
     /\ last.outcome \notin {"AssertionError", "MemoryError"}) =>
      /\ last.outcome = "returned"
      /\ Len(last.value) = 1
      /\ last.value[1].by = CustomConverter

\* C17: with a converter supplied the meta_architecture tag is never looked up
\* in the registry, construction succeeds even when the tag is unregistered,
\* and forward uses the supplied converter; the lookup (default tag
\* GeneralizedRCNN) happens only when none is supplied.
C17_ExplicitConverterSkipsRegistry ==
    /\ ConverterDecidesLookup
    /\ ForwardUsesSuppliedConverter

====
